---- MODULE Spec2Model ----
(***************************************************************************)
(* A model of the go-sendgrid v1 client: the functional options and the    *)
(* constructors (option.go, client.go New, mock.go Mock), email            *)
(* preparation (prepareEmail), the live client's operations and its        *)
(* request dispatcher (client.Send), and the simulation client (mock).     *)
(*                                                                         *)
(* Go slices are references.  An Email holds its personalizations by       *)
(* value, but each Personalization's Recipients slice points at a backing  *)
(* array; the model keeps those arrays in `heap` and a Personalization     *)
(* holds the index of its array, so that a write through a copy of the     *)
(* Email struct is visible through the original.                           *)
(***************************************************************************)
EXTENDS Integers, Sequences, FiniteSets, TLC

VARIABLES
  cli,        \* the client the caller holds (a *client or a *mock)
  exchanges,  \* transport exchanges (http.Client.Do calls) made through cli
  pc,         \* "idle": no call in progress; "returned": a call has returned
  last,       \* the call that has just returned: inputs, wire request, result
  email,      \* the caller's Email struct (Recipients held by reference)
  heap,       \* backing arrays of the Recipients slices
  orig,       \* the caller's Email, by value, as it was when the call began
  prep,       \* a call of prepareEmail on its own: arguments and result
  calls       \* concurrent SendEmail calls: per call its position and locals

vars == <<cli, exchanges, pc, last, email, heap, orig, prep, calls>>

----------------------------------------------------------------------------
(* Bounds of the model *)

MaxPers == 2        \* personalizations per email
MaxRecipients == 2  \* recipients per personalization
MaxOpts == 2        \* options passed to New / Mock
MaxResults == 2     \* contacts in a search response
MaxExchanges == 2   \* exchanges counted per client

None == "none"

SeqsUpTo(S, n) == UNION {[1..k -> S] : k \in 0..n}

----------------------------------------------------------------------------
(* sendgrid.go: the data types *)

Address(e, n) == [Email |-> e, Name |-> n]

ZeroAddress == Address("", "")

IsZero(a) == a.Email = ""

ErrBadRequest == "Bad request"
ErrForbidden == "Forbidden"
ErrUnauthorized == "Unauthorized"
ErrServiceError == "Service error"
ErrNotFound == "Not found"

Sentinels == {ErrBadRequest, ErrForbidden, ErrUnauthorized, ErrServiceError, ErrNotFound}

NoErr == "nil"

defaultEndpoint == "https://api.sendgrid.com/v3"

----------------------------------------------------------------------------
(* Inputs the caller can supply *)

SenderArgs == {ZeroAddress, Address("from@x.com", "X")}
OverrideArgs == {"", "test@x.com"}
EndpointArgs == {"", "https://stub.test", ":bad"}
ApiKeys == {"", "key"}

FromArgs == {ZeroAddress, Address("", "Me"), Address("me@y.com", "Me")}
RecipientArgs == {Address("real@y.com", "Y"), Address("other@z.com", "")}

\* An email by value: the Recipients arrays are written out in place.
EmailValue(f, r, ps) ==
  [TemplateId |-> "tpl", From |-> f, ReplyTo |-> r, Personalizations |-> ps]

Emails ==
  {EmailValue(f, r, ps) : f \in FromArgs, r \in FromArgs,
                          ps \in SeqsUpTo(SeqsUpTo(RecipientArgs, MaxRecipients), MaxPers)}

\* The caller builds an Email: one backing array per personalization.
AllocHeap(v) == [k \in 1..Len(v.Personalizations) |-> v.Personalizations[k]]

AllocEmail(v) ==
  [TemplateId |-> v.TemplateId, From |-> v.From, ReplyTo |-> v.ReplyTo,
   Personalizations |-> [k \in 1..Len(v.Personalizations) |-> [Recipients |-> k]]]

\* Reading an Email through its references: what the caller (or
\* json.Marshal) sees.
Deref(h, e) ==
  [TemplateId |-> e.TemplateId, From |-> e.From, ReplyTo |-> e.ReplyTo,
   Personalizations |->
     [k \in 1..Len(e.Personalizations) |-> h[e.Personalizations[k].Recipients]]]

----------------------------------------------------------------------------
(* client.go: prepareEmail *)

\* the inner loop: for i, a := range p.Recipients { p.Recipients[i] = ... }
RewriteFirstOnly(rs, overrideAddress) ==
  [i \in 1..Len(rs) |->
     IF i = 1 THEN Address(overrideAddress, rs[i].Name) ELSE rs[i]]

RewriteRecipients(rs, overrideAddress) ==
  [i \in 1..Len(rs) |-> Address(overrideAddress, rs[i].Name)]

\* the outer loop: for _, p := range dup.Personalizations
RECURSIVE OverrideLoop(_, _, _, _)
OverrideLoop(h, ps, k, overrideAddress) ==
  IF k > Len(ps) THEN h
  ELSE OverrideLoop(
         [h EXCEPT ![ps[k].Recipients] = RewriteRecipients(@, overrideAddress)],
         ps, k + 1, overrideAddress)

prepareEmailReplyToFollowsFrom(h, e, defaultSender, overrideAddress) ==
  LET dup1 == IF IsZero(e.From) THEN [e EXCEPT !.From = defaultSender] ELSE e
      dup2 == IF IsZero(e.From) THEN [dup1 EXCEPT !.ReplyTo = defaultSender] ELSE dup1
  IN  [heap |-> IF overrideAddress /= ""
                THEN OverrideLoop(h, dup2.Personalizations, 1, overrideAddress)
                ELSE h,
       dup |-> dup2]

\* dup := *email copies the struct; the Recipients arrays stay shared, so
\* the writes of the loop land in h, the arrays the caller's email uses.
prepareEmail(h, e, defaultSender, overrideAddress) ==
  LET dup1 == IF IsZero(e.From) THEN [e EXCEPT !.From = defaultSender] ELSE e
      dup2 == IF IsZero(dup1.ReplyTo) THEN [dup1 EXCEPT !.ReplyTo = defaultSender] ELSE dup1
  IN  [heap |-> IF overrideAddress /= ""
                THEN OverrideLoop(h, dup2.Personalizations, 1, overrideAddress)
                ELSE h,
       dup |-> dup2]

----------------------------------------------------------------------------
(* A call of prepareEmail on its own *)

InitCommon ==
  /\ cli = None
  /\ exchanges = 0
  /\ pc = "idle"
  /\ last = None
  /\ calls = <<>>

InitPrep ==
  /\ InitCommon
  /\ \E v \in Emails :
       /\ email = AllocEmail(v)
       /\ heap = AllocHeap(v)
       /\ orig = v
  /\ \E ds \in SenderArgs, ov \in OverrideArgs :
       prep = [state |-> "start", defaultSender |-> ds, overrideAddress |-> ov,
               dup |-> None]

Prepare ==
  /\ prep.state = "start"
  /\ LET r == prepareEmail(heap, email, prep.defaultSender, prep.overrideAddress)
     IN  /\ heap' = r.heap
         /\ prep' = [prep EXCEPT !.state = "done", !.dup = r.dup]
  /\ UNCHANGED <<cli, exchanges, pc, last, email, orig, calls>>

NextPrep == Prepare

SpecPrep == InitPrep /\ [][NextPrep]_vars

\* the email prepareEmail returned, read through its references
Prepared == Deref(heap, prep.dup)

\* C1: with a non-empty override address, every recipient of every
\* personalization of the prepared email carries the override address and
\* the display name it had before, and From / ReplyTo are what they are
\* with no override address configured.
C1_OverrideRewritesEveryRecipient ==
  (prep.state = "done" /\ prep.overrideAddress /= "") =>
    /\ Len(Prepared.Personalizations) = Len(orig.Personalizations)
    /\ \A k \in 1..Len(orig.Personalizations) :
         /\ Len(Prepared.Personalizations[k]) = Len(orig.Personalizations[k])
         /\ \A i \in 1..Len(orig.Personalizations[k]) :
              /\ Prepared.Personalizations[k][i].Email = prep.overrideAddress
              /\ Prepared.Personalizations[k][i].Name = orig.Personalizations[k][i].Name
    /\ LET plain == prepareEmail(AllocHeap(orig), AllocEmail(orig), prep.defaultSender, "").dup
       IN  /\ Prepared.From = plain.From
           /\ Prepared.ReplyTo = plain.ReplyTo

C1_Witness ==
  /\ prep.state = "done"
  /\ prep.overrideAddress /= ""
  /\ Len(orig.Personalizations) = MaxPers
  /\ \A k \in 1..MaxPers :
       /\ Len(orig.Personalizations[k]) >= 2
       /\ \A i \in 1..Len(orig.Personalizations[k]) :
            /\ orig.Personalizations[k][i].Email /= prep.overrideAddress
            /\ Prepared.Personalizations[k][i].Email = prep.overrideAddress
  /\ orig.Personalizations[1][1].Name /= orig.Personalizations[1][2].Name

\* C3: From is the default sender exactly when the caller's From has an
\* empty Email, and otherwise is the caller's From; the same, independently,
\* for ReplyTo.
C3_DefaultSenderOnlyWhenZero ==
  prep.state = "done" =>
    /\ prep.dup.From = (IF orig.From.Email = "" THEN prep.defaultSender ELSE orig.From)
    /\ prep.dup.ReplyTo = (IF orig.ReplyTo.Email = "" THEN prep.defaultSender ELSE orig.ReplyTo)

C3_Witness ==
  /\ prep.state = "done"
  /\ prep.defaultSender /= ZeroAddress
  /\ orig.From = Address("", "Me")
  /\ orig.ReplyTo.Email /= ""
  /\ prep.dup.From = prep.defaultSender
  /\ prep.dup.ReplyTo = orig.ReplyTo

----------------------------------------------------------------------------
(* option.go: the functional options, and the constructors *)

Endpoint(base) == [option |-> "Endpoint", base |-> base]
DefaultSender(sender) == [option |-> "DefaultSender", sender |-> sender]
OverrideAddress(override) == [option |-> "OverrideAddress", override |-> override]
Verbose(on) == [option |-> "Verbose", on |-> on]

Options ==
  {Endpoint(b) : b \in EndpointArgs} \cup {DefaultSender(a) : a \in SenderArgs}
  \cup {OverrideAddress(o) : o \in OverrideArgs} \cup {Verbose(b) : b \in BOOLEAN}

\* o(conf): each option returns the config with one field replaced
ApplyOption(o, conf) ==
  CASE o.option = "Endpoint" -> [conf EXCEPT !.Endpoint = o.base]
    [] o.option = "DefaultSender" -> [conf EXCEPT !.DefaultSender = o.sender]
    [] o.option = "OverrideAddress" -> [conf EXCEPT !.OverrideAddress = o.override]
    [] o.option = "Verbose" -> [conf EXCEPT !.Verbose = o.on]

\* for _, o := range opts { conf = o(conf) }
RECURSIVE ApplyOptions(_, _, _)
ApplyOptions(conf, opts, k) ==
  IF k > Len(opts) THEN conf
  ELSE ApplyOptions(ApplyOption(opts[k], conf), opts, k + 1)

\* debugFlag is debug.VERBOSE || debug.DEBUG, read when New runs
New(apikey, opts, debugFlag) ==
  LET conf == ApplyOptions([Endpoint |-> defaultEndpoint, OverrideAddress |-> "",
                            DefaultSender |-> ZeroAddress, Verbose |-> debugFlag],
                           opts, 1)
  IN  [kind |-> "client", apikey |-> apikey, base |-> conf.Endpoint,
       overrideAddress |-> conf.OverrideAddress,
       defaultSender |-> conf.DefaultSender, verbose |-> conf.Verbose]

Mock(apikey, opts) ==
  LET conf == ApplyOptions([Endpoint |-> defaultEndpoint, OverrideAddress |-> "",
                            DefaultSender |-> ZeroAddress, Verbose |-> FALSE],
                           opts, 1)
  IN  [kind |-> "mock", base |-> conf.Endpoint,
       defaultSender |-> conf.DefaultSender,
       overrideAddress |-> conf.OverrideAddress, verbose |-> conf.Verbose]

----------------------------------------------------------------------------
(* net/http as the client uses it: requests, and the transport's behaviour *)

NoBody == [present |-> FALSE]

\* a request body: its bytes, and whether reading it to the end succeeds
Reader(data, read) == [present |-> TRUE, data |-> data, read |-> read]

\* urls.Join(base, path) followed by an optional query string
URL(base, path, query) == [base |-> base, path |-> path, query |-> query]

\* http.NewRequest: url.Parse rejects a URL that begins with a colon
NewRequest(method, url, body) ==
  IF url.base = ":bad"
  THEN [err |-> "parse error", req |-> None]
  ELSE [err |-> NoErr, req |-> [method |-> method, url |-> url, body |-> body]]

NilData == [nil |-> TRUE]

\* a response body: whether it is JSON, and the "result" array it holds
RspBody(json, result) == [nil |-> FALSE, json |-> json, result |-> result]

ContactRefs == {"c1", "c2", "nil"}

SimpleBodies == {RspBody(FALSE, <<>>), RspBody(TRUE, <<>>)}

SearchBodies ==
  {RspBody(FALSE, <<>>)} \cup {RspBody(TRUE, r) : r \in SeqsUpTo(ContactRefs, MaxResults)}

StatusCodes == {199, 200, 299, 300, 400, 401, 403, 418, 500}

StatusText(code) ==
  CASE code = 199 -> "199 Unassigned"
    [] code = 200 -> "200 OK"
    [] code = 299 -> "299 Unassigned"
    [] code = 300 -> "300 Multiple Choices"
    [] code = 400 -> "400 Bad Request"
    [] code = 401 -> "401 Unauthorized"
    [] code = 403 -> "403 Forbidden"
    [] code = 418 -> "418 I'm a teapot"
    [] code = 500 -> "500 Internal Server Error"

\* What the transport does with a request: Do fails, or a response arrives
\* whose body can be read to the end or not.
Outcomes(bodies) ==
  {[kind |-> "error", code |-> 0, status |-> "", readOK |-> FALSE, body |-> NilData]}
  \cup {[kind |-> "response", code |-> c, status |-> StatusText(c), readOK |-> FALSE,
         body |-> NilData] : c \in StatusCodes}
  \cup {[kind |-> "response", code |-> c, status |-> StatusText(c), readOK |-> TRUE,
         body |-> b] : c \in StatusCodes, b \in bodies}

NotSent == [sent |-> FALSE]

\* c.client.Do(req): a request without scheme and host, or one whose body
\* cannot be read, ends in an error whatever the server would answer
Do(wire, env) ==
  IF wire.url.base = "" \/ (wire.body.present /\ wire.body.read = "fail")
  THEN [kind |-> "error", code |-> 0, status |-> "", readOK |-> FALSE, body |-> NilData]
  ELSE env

----------------------------------------------------------------------------
(* client.go: the dispatcher *)

StatusForbidden == 403
StatusUnauthorized == 401
StatusBadRequest == 400
StatusInternalServerError == 500

TransportErr == "transport error"
ReadErr == "read error"

UnexpectedStatus(status) == "Unexpected status code: " \o status

ClassifyInclusiveUpper(code, status, data) ==
  IF code >= 200 /\ code <= 300
  THEN [ok |-> TRUE, data |-> data, err |-> NoErr]
  ELSE [ok |-> FALSE, data |-> NilData,
        err |-> CASE code = StatusForbidden -> ErrForbidden
                  [] code = StatusUnauthorized -> ErrUnauthorized
                  [] code = StatusBadRequest -> ErrBadRequest
                  [] code = StatusInternalServerError -> ErrServiceError
                  [] OTHER -> UnexpectedStatus(status)]

\* the status check and the switch that end Send
Classify(code, status, data) ==
  IF code >= 200 /\ code < 300
  THEN [ok |-> TRUE, data |-> data, err |-> NoErr]
  ELSE [ok |-> FALSE, data |-> NilData,
        err |-> CASE code = StatusForbidden -> ErrForbidden
                  [] code = StatusUnauthorized -> ErrUnauthorized
                  [] code = StatusBadRequest -> ErrBadRequest
                  [] code = StatusInternalServerError -> ErrServiceError
                  [] OTHER -> UnexpectedStatus(status)]

SendRetriesOnFailure(c, req, env) ==
  LET authorization == IF c.apikey /= "" THEN "Bearer " \o c.apikey ELSE ""
      contentType == IF req.body.present THEN "application/json" ELSE ""
      traced == c.verbose /\ req.body.present
  IN  IF traced /\ req.body.read = "fail"
      THEN [called |-> TRUE, made |-> 0, wire |-> NotSent,
            outcome |-> [kind |-> "none"], ok |-> FALSE, data |-> NilData,
            err |-> ReadErr, trace |-> <<>>]
      ELSE
        LET body == IF traced THEN Reader(req.body.data, "ok") ELSE req.body
            wire == [sent |-> TRUE, method |-> req.method, url |-> req.url,
                     Authorization |-> authorization, ContentType |-> contentType,
                     body |-> body]
            rsp == Do(wire, env)
            base == [called |-> TRUE, wire |-> wire, outcome |-> rsp, trace |-> <<>>]
        IN  IF rsp.kind = "error"
            THEN base @@ [made |-> 2, ok |-> FALSE, data |-> NilData,
                          err |-> TransportErr]
            ELSE IF ~rsp.readOK
            THEN base @@ [made |-> 1, ok |-> FALSE, data |-> NilData, err |-> ReadErr]
            ELSE base @@ [made |-> 1] @@ Classify(rsp.code, rsp.status, rsp.body)

\* A call that never reached Send
NotCalled ==
  [called |-> FALSE, made |-> 0, wire |-> NotSent,
   outcome |-> [kind |-> "none"], ok |-> FALSE, data |-> NilData, err |-> NoErr,
   trace |-> <<>>]

\* Send(req): headers, tracing, the exchange, classification.
\*   made     how many times c.client.Do ran
\*   wire     the request as handed to the transport
\*   outcome  what the transport did with it
\*   ok       whether a *http.Response is returned (non-nil)
Send(c, req, env) ==
  LET authorization == IF c.apikey /= "" THEN "Bearer " \o c.apikey ELSE ""
      contentType == IF req.body.present THEN "application/json" ELSE ""
      traced == c.verbose /\ req.body.present
      line == IF c.verbose THEN <<[prefix |-> "sendgrid:", text |-> <<req.method, req.url>>]>>
              ELSE <<>>
  IN  IF traced /\ req.body.read = "fail"
      THEN [called |-> TRUE, made |-> 0, wire |-> NotSent,
            outcome |-> [kind |-> "none"], ok |-> FALSE, data |-> NilData,
            err |-> ReadErr, trace |-> line]
      ELSE
        LET body == IF traced THEN Reader(req.body.data, "ok") ELSE req.body
            out == IF traced
                   THEN line \o <<[prefix |-> " > ", text |-> req.body.data]>>
                   ELSE line
            wire == [sent |-> TRUE, method |-> req.method, url |-> req.url,
                     Authorization |-> authorization, ContentType |-> contentType,
                     body |-> body]
            rsp == Do(wire, env)
            base == [called |-> TRUE, made |-> 1, wire |-> wire, outcome |-> rsp]
        IN  IF rsp.kind = "error"
            THEN base @@ [ok |-> FALSE, data |-> NilData, err |-> TransportErr,
                          trace |-> out]
            ELSE IF ~rsp.readOK
            THEN base @@ [ok |-> FALSE, data |-> NilData, err |-> ReadErr,
                          trace |-> out]
            ELSE base @@ Classify(rsp.code, rsp.status, rsp.body)
                      @@ [trace |-> IF c.verbose
                                    THEN out \o <<[prefix |-> " < ", text |-> rsp.body]>>
                                    ELSE out]

----------------------------------------------------------------------------
(* encoding: url.Values and json.Marshal *)

\* url.Values with one value per key: a set of <<key, value>> pairs
SetParam(params, key, value) == {p \in params : p[1] /= key} \cup {<<key, value>>}

\* url.QueryEscape, on the values the model uses
QueryEscape(v) ==
  CASE v = "real@y.com" -> "real%40y.com"
    [] OTHER -> v

\* Values.Encode(): "key=value" joined by "&", sorted by key
KeyOrder == <<"email", "ext_id", "user_id">>

RECURSIVE EncodeFrom(_, _)
EncodeFrom(params, k) ==
  IF k > Len(KeyOrder) THEN ""
  ELSE LET rest == EncodeFrom(params, k + 1)
           here == {p \in params : p[1] = KeyOrder[k]}
       IN  IF here = {} THEN rest
           ELSE LET p == CHOOSE q \in here : TRUE
                IN  p[1] \o "=" \o QueryEscape(p[2])
                      \o (IF rest = "" THEN "" ELSE "&" \o rest)

Encode(params) == EncodeFrom(params, 1)

\* json.Marshal of an Email follows the Recipients references
MarshalEmail(h, e) ==
  [template_id |-> e.TemplateId,
   from |-> [email |-> e.From.Email, name |-> e.From.Name],
   reply_to |-> [email |-> e.ReplyTo.Email, name |-> e.ReplyTo.Name],
   personalizations |->
     [k \in 1..Len(e.Personalizations) |->
        [to |-> [i \in 1..Len(h[e.Personalizations[k].Recipients]) |->
                   [email |-> h[e.Personalizations[k].Recipients][i].Email,
                    name |-> h[e.Personalizations[k].Recipients][i].Name]]]]]

storeContactsRequest(contacts, lists) == [list_ids |-> lists, contacts |-> contacts]

MarshalErr == "marshal error"

\* json.Marshal fails on a contact whose custom fields hold a value JSON
\* cannot express (a channel, a function); an Email always marshals
JSONMarshals(data) ==
  "contacts" \in DOMAIN data =>
    \A i \in 1..Len(data.contacts) : data.contacts[i].Fields /= "unsupported"

SearchPath == "/marketing/contacts/search"

----------------------------------------------------------------------------
(* client.go: the live client's operations *)

NoDump == [dumped |-> FALSE]

Result(err, contact, url, send) ==
  [err |-> err, contact |-> contact, url |-> url, send |-> send, dump |-> NoDump]

clientStoreContacts(c, contacts, lists, env) ==
  LET data == storeContactsRequest(contacts, lists)
      url == URL(c.base, "/marketing/contacts", "")
      nr == NewRequest("PUT", url, Reader(data, "ok"))
  IN  IF ~JSONMarshals(data) THEN Result(MarshalErr, "nil", url, NotCalled)
      ELSE IF nr.err /= NoErr THEN Result(nr.err, "nil", url, NotCalled)
      ELSE LET s == Send(c, nr.req, env)
           IN  Result(s.err, "nil", url, s)

UnmarshalErr == "unmarshal error"

clientFetchContactWithParamsFirstOfMany(c, params, env) ==
  LET url == URL(c.base, SearchPath, "?" \o Encode(params))
      nr == NewRequest("POST", url, NoBody)
  IN  IF nr.err /= NoErr THEN Result(nr.err, "nil", url, NotCalled)
      ELSE LET s == Send(c, nr.req, env)
           IN  IF s.err /= NoErr THEN Result(s.err, "nil", url, s)
               ELSE IF ~s.data.json THEN Result(UnmarshalErr, "nil", url, s)
               ELSE IF Len(s.data.result) < 1 THEN Result(ErrNotFound, "nil", url, s)
               ELSE Result(NoErr, s.data.result[1], url, s)

clientFetchContactWithParams(c, params, env) ==
  LET url == URL(c.base, SearchPath, "?" \o Encode(params))
      nr == NewRequest("POST", url, NoBody)
  IN  IF nr.err /= NoErr THEN Result(nr.err, "nil", url, NotCalled)
      ELSE LET s == Send(c, nr.req, env)
           IN  IF s.err /= NoErr THEN Result(s.err, "nil", url, s)
               ELSE IF ~s.data.json THEN Result(UnmarshalErr, "nil", url, s)
               ELSE IF Len(s.data.result) /= 1 THEN Result(ErrNotFound, "nil", url, s)
               ELSE Result(NoErr, s.data.result[1], url, s)

clientFetchContact(c, id, env) ==
  clientFetchContactWithParams(c, SetParam({}, "user_id", id), env)

clientFetchContactByEmail(c, addr, env) ==
  clientFetchContactWithParams(c, SetParam({}, "email", addr), env)

\* the result also carries the arrays as prepareEmail left them
clientSendEmail(c, h, e, env) ==
  LET p == prepareEmail(h, e, c.defaultSender, c.overrideAddress)
      data == MarshalEmail(p.heap, p.dup)
      url == URL(c.base, "/mail/send", "")
      nr == NewRequest("POST", url, Reader(data, "ok"))
  IN  IF nr.err /= NoErr THEN Result(nr.err, "nil", url, NotCalled) @@ [heap |-> p.heap]
      ELSE LET s == Send(c, nr.req, env)
           IN  Result(s.err, "nil", url, s) @@ [heap |-> p.heap]

----------------------------------------------------------------------------
(* mock.go: the simulation client *)

NoEntity == [present |-> FALSE]
Entity(data) == [present |-> TRUE, data |-> data]

\* dump prints the method and the URL, and the entity when verbose; when
\* json.MarshalIndent fails it returns the error and prints nothing
dump(c, method, url, entity) ==
  IF c.verbose /\ entity.present /\ ~JSONMarshals(entity.data)
  THEN [dumped |-> FALSE, method |-> method, url |-> url, payload |-> NoEntity,
        err |-> MarshalErr]
  ELSE [dumped |-> TRUE, method |-> method, url |-> url,
        payload |-> IF c.verbose /\ entity.present THEN entity ELSE NoEntity,
        err |-> NoErr]

MockResult(err, contact, d) ==
  [err |-> err, contact |-> contact, url |-> d.url, send |-> NotCalled, dump |-> d]

mockSendEmail(c, h, e) ==
  LET p == prepareEmail(h, e, c.defaultSender, c.overrideAddress)
      d == dump(c, "POST", URL(c.base, "/mail/send", ""),
                Entity(MarshalEmail(p.heap, p.dup)))
  IN  MockResult(NoErr, "nil", d) @@ [heap |-> p.heap]

mockStoreContacts(c, contacts, lists) ==
  LET d == dump(c, "PUT", URL(c.base, "/marketing/contacts", ""),
                Entity(storeContactsRequest(contacts, lists)))
  IN  MockResult(NoErr, "nil", d)

mockFetchContactWithParamsFound(c, params) ==
  LET query == IF Cardinality(params) > 0 THEN "?" \o Encode(params) ELSE ""
      d == dump(c, "POST", URL(c.base, SearchPath, query), NoEntity)
  IN  MockResult(NoErr, "c1", d)

mockFetchContactWithParams(c, params) ==
  LET query == IF Cardinality(params) > 0 THEN "?" \o Encode(params) ELSE ""
      d == dump(c, "POST", URL(c.base, SearchPath, query), NoEntity)
  IN  MockResult(ErrNotFound, "nil", d)

mockFetchContact(c, id) ==
  mockFetchContactWithParams(c, SetParam({}, "ext_id", id))

mockFetchContactByEmail(c, addr) ==
  mockFetchContactWithParams(c, SetParam({}, "email", addr))

----------------------------------------------------------------------------
(* The caller: constructs clients and calls their operations, one call at  *)
(* a time.  Every call records its inputs and what came back in `last`.    *)

ContactArgs ==
  {<<>>, <<[Id |-> "", Email |-> "real@y.com", Fields |-> "none"]>>,
   <<[Id |-> "", Email |-> "real@y.com", Fields |-> "unsupported"]>>}
ListArgs == {<<>>, <<"l1">>}
IdArgs == {"u1", "u2"}
EmailArgs == {"real@y.com", "other@z.com"}
ParamArgs ==
  {{}, {<<"email", "real@y.com">>}, {<<"ext_id", "u1">>},
   {<<"ext_id", "u1">>, <<"email", "real@y.com">>}}

SampleEmails ==
  {EmailValue(f, ZeroAddress, ps) :
     f \in {ZeroAddress, Address("me@y.com", "Me")},
     ps \in {<<>>,
             << <<Address("real@y.com", "Y")>> >>,
             << <<Address("real@y.com", "Y"), Address("other@z.com", "")>> >>,
             << <<Address("real@y.com", "Y")>>, <<Address("other@z.com", "")>> >>}}

\* requests a caller hands to Send itself
DirectRequests ==
  {[method |-> "GET", url |-> URL("https://stub.test", "/scopes", ""), body |-> b] :
     b \in {NoBody, Reader("{}", "ok"), Reader("{}", "fail")}}

NoEmail == EmailValue(ZeroAddress, ZeroAddress, <<>>)

Init ==
  /\ \E k \in ApiKeys, d \in BOOLEAN : cli = New(k, <<>>, d)
  /\ exchanges = 0
  /\ pc = "idle"
  /\ last = None
  /\ email = AllocEmail(NoEmail)
  /\ heap = AllocHeap(NoEmail)
  /\ orig = NoEmail
  /\ prep = None
  /\ calls = <<>>

DoNew ==
  /\ pc = "idle"
  /\ \E k \in ApiKeys, opts \in SeqsUpTo(Options, MaxOpts), d \in BOOLEAN :
       cli' = New(k, opts, d)
  /\ exchanges' = 0
  /\ UNCHANGED <<pc, last, email, heap, orig, prep, calls>>

DoMock ==
  /\ pc = "idle"
  /\ \E k \in ApiKeys, opts \in SeqsUpTo(Options, MaxOpts) : cli' = Mock(k, opts)
  /\ exchanges' = 0
  /\ UNCHANGED <<pc, last, email, heap, orig, prep, calls>>

\* the same client but for its verbose flag
Twin(c) == [c EXCEPT !.verbose = ~c.verbose]

CanCall(kind) ==
  /\ pc = "idle"
  /\ cli.kind = kind
  /\ exchanges < MaxExchanges

Returned(call, r) ==
  /\ pc' = "returned"
  /\ last' = call @@ r
  /\ exchanges' = exchanges + r.send.made
  /\ UNCHANGED <<cli, prep, calls>>

Call(op, arg, env) == [op |-> op, kind |-> cli.kind, arg |-> arg, env |-> env]

LiveStoreContacts ==
  /\ CanCall("client")
  /\ \E contacts \in ContactArgs, lists \in ListArgs, env \in Outcomes(SimpleBodies) :
       Returned(Call("StoreContacts", <<contacts, lists>>, env),
                clientStoreContacts(cli, contacts, lists, env)
                  @@ [twin |-> clientStoreContacts(Twin(cli), contacts, lists, env)])
  /\ UNCHANGED <<email, heap, orig>>

LiveFetchContactWithParams ==
  /\ CanCall("client")
  /\ \E params \in ParamArgs, env \in Outcomes(SearchBodies) :
       Returned(Call("FetchContactWithParams", params, env),
                clientFetchContactWithParams(cli, params, env)
                  @@ [twin |-> clientFetchContactWithParams(Twin(cli), params, env)])
  /\ UNCHANGED <<email, heap, orig>>

LiveFetchContact ==
  /\ CanCall("client")
  /\ \E id \in IdArgs, env \in Outcomes(SearchBodies) :
       Returned(Call("FetchContact", id, env),
                clientFetchContact(cli, id, env)
                  @@ [twin |-> clientFetchContact(Twin(cli), id, env)])
  /\ UNCHANGED <<email, heap, orig>>

LiveFetchContactByEmail ==
  /\ CanCall("client")
  /\ \E addr \in EmailArgs, env \in Outcomes(SearchBodies) :
       Returned(Call("FetchContactByEmail", addr, env),
                clientFetchContactByEmail(cli, addr, env)
                  @@ [twin |-> clientFetchContactByEmail(Twin(cli), addr, env)])
  /\ UNCHANGED <<email, heap, orig>>

LiveSendEmail ==
  /\ CanCall("client")
  /\ \E v \in SampleEmails, env \in Outcomes(SimpleBodies) :
       LET e == AllocEmail(v)
           r == clientSendEmail(cli, AllocHeap(v), e, env)
       IN  /\ Returned(Call("SendEmail", v, env),
                       r @@ [twin |-> clientSendEmail(Twin(cli), AllocHeap(v), e, env)])
           /\ email' = e
           /\ heap' = r.heap
           /\ orig' = v

\* Send is exported: a caller can hand it a request of its own
LiveSend ==
  /\ CanCall("client")
  /\ \E req \in DirectRequests, env \in Outcomes(SimpleBodies) :
       LET s == Send(cli, req, env)
       IN  Returned(Call("Send", req, env),
                    Result(s.err, "nil", req.url, s)
                      @@ [twin |-> LET t == Send(Twin(cli), req, env)
                                   IN  Result(t.err, "nil", req.url, t)])
  /\ UNCHANGED <<email, heap, orig>>

MockStoreContacts ==
  /\ CanCall("mock")
  /\ \E contacts \in ContactArgs, lists \in ListArgs :
       Returned(Call("StoreContacts", <<contacts, lists>>, None),
                mockStoreContacts(cli, contacts, lists))
  /\ UNCHANGED <<email, heap, orig>>

MockFetchContactWithParams ==
  /\ CanCall("mock")
  /\ \E params \in ParamArgs :
       Returned(Call("FetchContactWithParams", params, None),
                mockFetchContactWithParams(cli, params))
  /\ UNCHANGED <<email, heap, orig>>

MockFetchContact ==
  /\ CanCall("mock")
  /\ \E id \in IdArgs :
       Returned(Call("FetchContact", id, None), mockFetchContact(cli, id))
  /\ UNCHANGED <<email, heap, orig>>

MockFetchContactByEmail ==
  /\ CanCall("mock")
  /\ \E addr \in EmailArgs :
       Returned(Call("FetchContactByEmail", addr, None), mockFetchContactByEmail(cli, addr))
  /\ UNCHANGED <<email, heap, orig>>

MockSendEmail ==
  /\ CanCall("mock")
  /\ \E v \in SampleEmails :
       LET e == AllocEmail(v)
           r == mockSendEmail(cli, AllocHeap(v), e)
       IN  /\ Returned(Call("SendEmail", v, None), r)
           /\ email' = e
           /\ heap' = r.heap
           /\ orig' = v

\* the caller has looked at the result and lets go of the email
Continue ==
  /\ pc = "returned"
  /\ pc' = "idle"
  /\ last' = None
  /\ email' = AllocEmail(NoEmail)
  /\ heap' = AllocHeap(NoEmail)
  /\ orig' = NoEmail
  /\ UNCHANGED <<cli, exchanges, prep, calls>>

Next ==
  \/ DoNew
  \/ DoMock
  \/ LiveStoreContacts
  \/ LiveFetchContactWithParams
  \/ LiveFetchContact
  \/ LiveFetchContactByEmail
  \/ LiveSendEmail
  \/ LiveSend
  \/ MockStoreContacts
  \/ MockFetchContactWithParams
  \/ MockFetchContact
  \/ MockFetchContactByEmail
  \/ MockSendEmail
  \/ Continue

Spec == Init /\ [][Next]_vars

----------------------------------------------------------------------------
(* Two SendEmail calls running at once on the same *Email.  Each call is   *)
(* followed statement by statement: the struct copy and the default        *)
(* sender (prepareEmail, first half), one write of p.Recipients[i] per     *)
(* step, then json.Marshal reading one recipient per step, then the        *)
(* request is handed to the transport.  The two calls share `heap`.        *)
(* The writes and reads of one array element by two calls are not          *)
(* synchronised; a read that races with a write returns the element as it  *)
(* was before the write or after it, in whichever order the steps fall.    *)

Callers == {1, 2}

ConcOverrides == {"", "test@x.com", "stage@x.com"}

\* the <<personalization, recipient>> index pairs in the order the loops
\* of prepareEmail and json.Marshal visit them
RECURSIVE SlotsFrom(_, _, _)
SlotsFrom(ps, k, i) ==
  IF k > Len(ps) THEN <<>>
  ELSE IF i > Len(ps[k]) THEN SlotsFrom(ps, k + 1, 1)
  ELSE <<<<k, i>>>> \o SlotsFrom(ps, k, i + 1)

Slots == SlotsFrom(orig.Personalizations, 1, 1)

InitConc ==
  /\ \E v \in SampleEmails :
       /\ email = AllocEmail(v)
       /\ heap = AllocHeap(v)
       /\ orig = v
  /\ \E o \in [Callers -> ConcOverrides], d \in [Callers -> SenderArgs] :
       cli = [t \in Callers |->
                New("key", <<OverrideAddress(o[t]), DefaultSender(d[t])>>, FALSE)]
  /\ calls = [t \in Callers |-> [pc |-> "copy", dup |-> AllocEmail(NoEmail),
                                 n |-> 1, to |-> <<>>, body |-> None]]
  /\ exchanges = 0
  /\ pc = "idle"
  /\ last = None
  /\ prep = None

\* dup := *email, and the two IsZero tests
CopyEmail(t) ==
  /\ calls[t].pc = "copy"
  /\ LET dup1 == IF IsZero(email.From)
                 THEN [email EXCEPT !.From = cli[t].defaultSender] ELSE email
         dup2 == IF IsZero(dup1.ReplyTo)
                 THEN [dup1 EXCEPT !.ReplyTo = cli[t].defaultSender] ELSE dup1
     IN  calls' = [calls EXCEPT ![t].dup = dup2,
                                ![t].pc = IF cli[t].overrideAddress /= ""
                                          THEN "loop" ELSE "marshal"]
  /\ UNCHANGED <<cli, exchanges, pc, last, email, heap, orig, prep>>

\* p.Recipients[i] = Address{Email: overrideAddress, Name: a.Name}
WriteRecipient(t) ==
  /\ calls[t].pc = "loop"
  /\ IF calls[t].n > Len(Slots)
     THEN /\ calls' = [calls EXCEPT ![t].pc = "marshal", ![t].n = 1]
          /\ heap' = heap
     ELSE LET k == Slots[calls[t].n][1]
              i == Slots[calls[t].n][2]
              ref == calls[t].dup.Personalizations[k].Recipients
          IN  /\ heap' = [heap EXCEPT ![ref][i] =
                            Address(cli[t].overrideAddress, heap[ref][i].Name)]
              /\ calls' = [calls EXCEPT ![t].n = @ + 1]
  /\ UNCHANGED <<cli, exchanges, pc, last, email, orig, prep>>

\* json.Marshal(dup) reads the recipients one after the other
ReadRecipient(t) ==
  /\ calls[t].pc = "marshal"
  /\ IF calls[t].n > Len(Slots)
     THEN calls' = [calls EXCEPT ![t].pc = "send"]
     ELSE LET k == Slots[calls[t].n][1]
              i == Slots[calls[t].n][2]
              a == heap[calls[t].dup.Personalizations[k].Recipients][i]
          IN  calls' = [calls EXCEPT
                          ![t].to = Append(@, [email |-> a.Email, name |-> a.Name]),
                          ![t].n = @ + 1]
  /\ UNCHANGED <<cli, exchanges, pc, last, email, heap, orig, prep>>

\* http.NewRequest and c.Send: the marshalled bytes leave
Transmit(t) ==
  /\ calls[t].pc = "send"
  /\ calls' = [calls EXCEPT
                 ![t].pc = "done",
                 ![t].body = [from |-> [email |-> calls[t].dup.From.Email,
                                        name |-> calls[t].dup.From.Name],
                              reply_to |-> [email |-> calls[t].dup.ReplyTo.Email,
                                            name |-> calls[t].dup.ReplyTo.Name],
                              to |-> calls[t].to]]
  /\ UNCHANGED <<cli, exchanges, pc, last, email, heap, orig, prep>>

NextConc ==
  \E t \in Callers :
    \/ CopyEmail(t)
    \/ WriteRecipient(t)
    \/ ReadRecipient(t)
    \/ Transmit(t)

SpecConc == InitConc /\ [][NextConc]_vars

----------------------------------------------------------------------------
(* Properties of the caller's view (Spec) *)

\* C2: after SendEmail returns, on the live or the simulation client, the
\* caller's Email read through its references has in every field, the
\* recipients of every personalization included, the value it had before
\* the call.
C2_CallerEmailUnchanged ==
  (pc = "returned" /\ last.op = "SendEmail") => Deref(heap, email) = orig

SuccessCodes == 200..299

\* C4: Send classifies a response by its status code alone: 2xx returns
\* the raw body and no error; 400, 401, 403 and 500 return BadRequest,
\* Unauthorized, Forbidden and ServiceError; any other status returns the
\* unexpected-status error with the status text, which is none of the
\* sentinels; and no error comes with a response body.
C4_StatusClassification ==
  (pc = "returned" /\ last.send.called) =>
    LET s == last.send
        o == s.outcome
    IN  /\ s.err /= NoErr => (s.data = NilData /\ ~s.ok)
        /\ (o.kind = "response" /\ o.readOK) =>
             /\ o.code \in SuccessCodes => (s.err = NoErr /\ s.ok /\ s.data = o.body)
             /\ o.code = 400 => s.err = ErrBadRequest
             /\ o.code = 401 => s.err = ErrUnauthorized
             /\ o.code = 403 => s.err = ErrForbidden
             /\ o.code = 500 => s.err = ErrServiceError
             /\ o.code \notin SuccessCodes \cup {400, 401, 403, 500} =>
                  /\ s.err = "Unexpected status code: " \o o.status
                  /\ s.err \notin Sentinels \cup {NoErr}

C4_Witness ==
  /\ pc = "returned"
  /\ last.send.called
  /\ last.send.outcome.kind = "response"
  /\ last.send.outcome.readOK
  /\ last.send.outcome.code = 300
  /\ last.send.outcome.body.json
  /\ last.send.err = "Unexpected status code: 300 Multiple Choices"
  /\ last.send.data = NilData

FetchOps == {"FetchContact", "FetchContactByEmail", "FetchContactWithParams"}

\* C5: a contact search of the live client that got a 2xx response returns
\* a contact and no error exactly when the result array has one element,
\* and then that element; with no element, or two or more, it returns
\* NotFound and no contact.
C5_ExactlyOneResult ==
  (/\ pc = "returned"
   /\ last.kind = "client"
   /\ last.op \in FetchOps
   /\ last.send.outcome.kind = "response"
   /\ last.send.outcome.readOK
   /\ last.send.outcome.code \in SuccessCodes) =>
    LET body == last.send.outcome.body
    IN  /\ ~body.json => (last.err \notin {NoErr, ErrNotFound} /\ last.contact = "nil")
        /\ body.json =>
             /\ last.err = NoErr <=> Len(body.result) = 1
             /\ Len(body.result) = 1 => last.contact = body.result[1]
             /\ Len(body.result) /= 1 =>
                  (last.err = ErrNotFound /\ last.contact = "nil")

C5_Witness ==
  /\ pc = "returned"
  /\ last.kind = "client"
  /\ last.op = "FetchContactWithParams"
  /\ last.send.outcome.kind = "response"
  /\ last.send.outcome.readOK
  /\ last.send.outcome.code = 200
  /\ last.send.outcome.body.json
  /\ Len(last.send.outcome.body.result) = 2
  /\ last.send.outcome.body.result[1] /= "nil"
  /\ last.err = ErrNotFound

\* C6: a simulation client has made no transport exchange, whatever was
\* called on it; its SendEmail and StoreContacts return no error, and its
\* FetchContact, FetchContactByEmail and FetchContactWithParams return
\* NotFound and no contact.
C6_MockNeverExchanges ==
  cli.kind = "mock" =>
    /\ exchanges = 0
    /\ pc = "returned" =>
         /\ last.send.made = 0
         /\ ~last.send.wire.sent
         /\ last.op \in {"SendEmail", "StoreContacts"} => last.err = NoErr
         /\ last.op \in FetchOps => (last.err = ErrNotFound /\ last.contact = "nil")

C6_Witness ==
  /\ cli.kind = "mock"
  /\ cli.verbose
  /\ cli.overrideAddress /= ""
  /\ pc = "returned"
  /\ last.op = "FetchContactWithParams"
  /\ last.arg /= {}
  /\ last.dump.dumped
  /\ last.err = ErrNotFound

\* C7: the endpoint a constructed client holds is never the empty string.
C7_EndpointNeverEmpty == cli.base /= ""

\* C8: FetchContact(id) addresses the search path with the single query
\* parameter ext_id=id, and FetchContactByEmail(email) with the single
\* parameter email=email, on the live client and on the simulation client.
C8_FetchQueryParameter ==
  (pc = "returned" /\ (last.send.wire.sent \/ last.dump.dumped)) =>
    /\ last.op = "FetchContact" =>
         /\ last.url.path = SearchPath
         /\ last.url.query = "?ext_id=" \o QueryEscape(last.arg)
    /\ last.op = "FetchContactByEmail" =>
         /\ last.url.path = SearchPath
         /\ last.url.query = "?email=" \o QueryEscape(last.arg)

\* errors of the transport and of reading a body are one kind
ErrKind(err) == IF err \in {TransportErr, ReadErr} THEN "io" ELSE err

\* C10: a live client with verbose on and one with verbose off, otherwise
\* the same and given the same input and the same transport behaviour,
\* hand the same request to the transport and return the same result and
\* the same kind of error.
C10_VerboseOnlyTraces ==
  (pc = "returned" /\ last.kind = "client") =>
    /\ last.send.wire = last.twin.send.wire
    /\ last.send.made = last.twin.send.made
    /\ last.send.data = last.twin.send.data
    /\ last.contact = last.twin.contact
    /\ ErrKind(last.err) = ErrKind(last.twin.err)

----------------------------------------------------------------------------
(* Properties of concurrent calls (SpecConc) *)

\* what call t transmits when it runs alone on the caller's email
AloneBody(t) ==
  LET p == prepareEmail(AllocHeap(orig), AllocEmail(orig),
                        cli[t].defaultSender, cli[t].overrideAddress)
      m == MarshalEmail(p.heap, p.dup)
  IN  [from |-> m.from, reply_to |-> m.reply_to,
       to |-> [j \in 1..Len(Slots) |->
                 m.personalizations[Slots[j][1]].to[Slots[j][2]]]]

\* C9: whatever the interleaving of two SendEmail calls on the same Email,
\* each call transmits the body it transmits when it runs alone, so every
\* recipient in its body carries its own client's override address.
C9_ConcurrentCallsIndependent ==
  \A t \in Callers :
    calls[t].pc = "done" =>
      /\ calls[t].body = AloneBody(t)
      /\ cli[t].overrideAddress /= "" =>
           \A j \in 1..Len(calls[t].body.to) :
             calls[t].body.to[j].email = cli[t].overrideAddress

----------------------------------------------------------------------------
(* Exchanges per call (Spec) *)

InterfaceOps ==
  {"StoreContacts", "FetchContact", "FetchContactByEmail", "FetchContactWithParams",
   "SendEmail"}

\* C11: a call of StoreContacts, FetchContact, FetchContactByEmail,
\* FetchContactWithParams or SendEmail on the live client runs
\* http.Client.Do at most once; a failed exchange, a response that cannot
\* be read and a non-2xx status come back as an error after that one
\* exchange; and a call that fails while marshalling or building the
\* request runs it not at all.
C11_AtMostOneExchange ==
  (pc = "returned" /\ last.kind = "client" /\ last.op \in InterfaceOps) =>
    LET s == last.send
    IN  /\ s.made \in {0, 1}
        /\ s.made = 1 <=> s.wire.sent
        /\ ~s.called => (s.made = 0 /\ last.err \in {MarshalErr, "parse error"})
        /\ s.called => s.made = 1
        /\ (s.made = 1 /\ (\/ s.outcome.kind = "error"
                           \/ ~s.outcome.readOK
                           \/ s.outcome.code \notin SuccessCodes)) =>
             (last.err = s.err /\ last.err /= NoErr)

C11_Witness ==
  /\ pc = "returned"
  /\ last.kind = "client"
  /\ last.op = "StoreContacts"
  /\ last.send.made = 1
  /\ last.send.outcome.kind = "error"
  /\ last.env.kind = "error"
  /\ last.err = TransportErr
  /\ exchanges = 1

====
